---- MODULE Spec2Model ----
(***************************************************************************)
(* Model of the Wordle solver in src/src/main.rs: the feedback model       *)
(* (Match::compute, Match::valid, Match::mask), the guess search           *)
(* (score, found, best_word) and the game loop (guesser, simulate).        *)
(* Indices are 1-based here where the source is 0-based.                    *)
(***************************************************************************)
EXTENDS Integers, Sequences, FiniteSets, TLC

\* ------------------------------------------------------------------------
\* Bounds of the model
\* ------------------------------------------------------------------------
\* number of letters the words given to compute and valid are built from
NumLetters == 2

\* longest feedback string handed to Match::mask
MaxInputLen == 6

\* turns the model counts; guesses and calls stop counting there
MaxTurns == 5

\* number of words of WordList the dictionaries are drawn from
PoolSize == 3

\* the same for the simulated games
SimPoolSize == 4

\* ------------------------------------------------------------------------
\* Word, Status, Match  (main.rs:10-48)
\* ------------------------------------------------------------------------
\* struct Word([char; 5])
WordLen == 5

Pos == 1..WordLen

Alphabet == <<"a", "r", "e", "o", "t", "s", "l", "c", "n">>

Min(x, y) == IF x < y THEN x ELSE y

Letters == {Alphabet[i] : i \in 1..Min(NumLetters, Len(Alphabet))}

\* every Word over the bounded alphabet
Words == [Pos -> Letters]

\* enum Status { Exact, Found, None }
Status == {"Exact", "Found", "None"}

AllExact == [i \in Pos |-> "Exact"]

\* Option<usize>: 0 stands for None, i for Some(i-1)
find_in_word(word, needle) ==
    IF \E i \in Pos : word[i] = needle
    THEN CHOOSE i \in Pos : /\ word[i] = needle
                            /\ \A j \in 1..(i-1) : word[j] # needle
    ELSE 0

\* Match::new
MatchNew(word) == [word |-> word, status |-> [i \in Pos |-> "None"]]

\* Match::input
MatchInput(word, status) == [word |-> word, status |-> status]

\* first loop of Match::compute (lines 93-98): st is [status, ans]
ComputePass1(guess, ans) ==
    [status |-> [i \in Pos |-> IF guess[i] = ans[i] THEN "Exact" ELSE "None"],
     ans    |-> [i \in Pos |-> IF guess[i] = ans[i] THEN "." ELSE ans[i]]]

\* second loop of Match::compute (lines 100-105), from position i on
RECURSIVE ComputePass2(_, _, _)
ComputePass2(guess, st, i) ==
    IF i > WordLen THEN st
    ELSE LET index == find_in_word(st.ans, guess[i]) IN
         IF index # 0
         THEN ComputePass2(guess,
                           [status |-> [st.status EXCEPT ![i] = "Found"],
                            ans    |-> [st.ans EXCEPT ![index] = "."]],
                           i + 1)
         ELSE ComputePass2(guess, st, i + 1)

\* Match::compute
compute(guess, ans) ==
    [word   |-> guess,
     status |-> ComputePass2(guess, ComputePass1(guess, ans), 1).status]

\* first loop of Match::valid (lines 111-127): no early return taken
ValidStage1(m, word) ==
    \A i \in Pos :
        /\ m.status[i] = "Exact" => word[i] = m.word[i]
        /\ m.status[i] = "Found" => word[i] # m.word[i]

\* the word after the first loop: Exact slots are overwritten by '.'
ValidConsumeExact(m, word) ==
    [i \in Pos |-> IF m.status[i] = "Exact" THEN "." ELSE word[i]]

\* second loop of Match::valid (lines 129-140), from position i on:
\* the word left after consuming one occurrence per Found slot, or
\* <<>> when the loop returns false
RECURSIVE ValidStage2(_, _, _)
ValidStage2(m, word, i) ==
    IF i > WordLen THEN word
    ELSE IF m.status[i] = "Found"
         THEN LET index == find_in_word(word, m.word[i]) IN
              IF index # 0
              THEN ValidStage2(m, [word EXCEPT ![index] = "."], i + 1)
              ELSE <<>>
         ELSE ValidStage2(m, word, i + 1)

\* third loop of Match::valid (lines 142-151)
ValidStage3(m, word) ==
    \A i \in Pos :
        m.status[i] = "None" => find_in_word(word, m.word[i]) = 0

\* Match::valid
valid(m, word) ==
    /\ ValidStage1(m, word)
    /\ LET w2 == ValidStage2(m, ValidConsumeExact(m, word), 1) IN
       /\ w2 # <<>>
       /\ ValidStage3(m, w2)

\* ------------------------------------------------------------------------
\* Match::mask  (main.rs:68-81)
\* ------------------------------------------------------------------------
\* the arms for '~' and '.' exchanged
MaskCharSwapped(c) ==
    IF c = "=" THEN "Exact"
    ELSE IF c = "~" THEN "None"
    ELSE IF c = "." THEN "Found"
    ELSE "panic"

\* the match arms of lines 73-76; "panic" is panic!("Unexpected character")
MaskChar(c) ==
    IF c = "=" THEN "Exact"
    ELSE IF c = "~" THEN "Found"
    ELSE IF c = "." THEN "None"
    ELSE "panic"

\* the loop of lines 71-78 from position i on; res.chars().nth(i).unwrap()
\* panics when res has no character at position i
RECURSIVE MaskLoop(_, _, _)
MaskLoop(res, status, i) ==
    IF i > WordLen THEN [end |-> "returned", status |-> status]
    ELSE IF i > Len(res) THEN [end |-> "panic_unwrap", status |-> <<>>]
    ELSE IF MaskChar(res[i]) = "panic"
         THEN [end |-> "panic_char", status |-> <<>>]
         ELSE MaskLoop(res, [status EXCEPT ![i] = MaskChar(res[i])], i + 1)

\* Match::mask: how the call ends, and the status array it returns
MatchMask(res) ==
    MaskLoop(res, MatchNew(<<"p", "a", "n", "i", "c">>).status, 1)

\* ------------------------------------------------------------------------
\* score, found, filter, best_word  (main.rs:171-237)
\* ------------------------------------------------------------------------
\* words.retain(|x| res.valid(*x))
filter(res, words) == SelectSeq(words, LAMBDA x : valid(res, x))

\* found: the number of entries of words that res.valid accepts
found(res, words) == Len(filter(res, words))

RECURSIVE SumFound(_, _, _)
SumFound(g, words, k) ==
    IF k > Len(words) THEN 0
    ELSE found(compute(g, words[k]), words) + SumFound(g, words, k + 1)

\* score: sum over ans in words of found(compute(guess, ans), words)
score(g, words) == SumFound(g, words, 1)

\* the closure |a, b| a.1.cmp(&b.1) handed to min_by (line 235)
ScoreCmp(a, b) ==
    IF a[2] < b[2] THEN "Less" ELSE IF a[2] = b[2] THEN "Equal" ELSE "Greater"

\* a reduction operator that keeps the right item on a tie
MinByOpKeepsRight(a, b) == IF ScoreCmp(a, b) = "Less" THEN a ELSE b

\* the reduction operator min_by hands to the parallel reduce: it keeps
\* the left item unless the right one compares smaller
MinByOp(a, b) == IF ScoreCmp(a, b) = "Greater" THEN b ELSE a

\* .map(|word| (*word, score(*word, &ans)))  (line 233)
Scored(full_words, ans) ==
    [k \in 1..Len(full_words) |-> <<full_words[k], score(full_words[k], ans)>>]

RECURSIVE ReduceFrom(_, _, _)
ReduceFrom(items, acc, k) ==
    IF k > Len(items) THEN acc
    ELSE ReduceFrom(items, MinByOp(acc, items[k]), k + 1)

\* best_word on a non-empty dictionary, reduced left to right
best_word(full_words, ans) ==
    LET items == Scored(full_words, ans) IN ReduceFrom(items, items[1], 2)[1]

\* ------------------------------------------------------------------------
\* State
\* ------------------------------------------------------------------------
VARIABLES
    \* feedback model: inputs and results of compute and valid
    guess, ans, cand, mat, ok,
    \* Match::mask: its argument and what the call ends with
    res, mask_out,
    \* best_word: its arguments and the items of the parallel reduction
    bw_words, bw_ans, parts,
    \* guesser (lines 304-344): parameters, locals, position in the loop
    full_words, answers_in, true_ans, answers, last_word, guesses, mask, pc,
    \* number of calls of the feedback source program
    calls

matchVars == <<guess, ans, cand, mat, ok>>
maskVars == <<res, mask_out>>
bestVars == <<bw_words, bw_ans, parts>>
gameVars == <<full_words, answers_in, true_ans, answers, last_word, guesses,
              mask, pc, calls>>
vars == <<guess, ans, cand, mat, ok, res, mask_out, bw_words, bw_ans, parts,
          full_words, answers_in, true_ans, answers, last_word, guesses,
          mask, pc, calls>>

NoWord == <<>>
NoMatch == [word |-> <<>>, status |-> <<>>]

IdleMatch ==
    /\ guess = NoWord
    /\ ans = NoWord
    /\ cand = NoWord
    /\ mat = NoMatch
    /\ ok = "unset"

NoMask == [end |-> "unset", status |-> <<>>]

IdleMask ==
    /\ res = <<>>
    /\ mask_out = [end |-> "idle", status |-> <<>>]

IdleBest ==
    /\ bw_words = <<>>
    /\ bw_ans = <<>>
    /\ parts = <<>>

IdleGame ==
    /\ full_words = <<>>
    /\ answers_in = <<>>
    /\ true_ans = NoWord
    /\ answers = <<>>
    /\ last_word = NoWord
    /\ guesses = 0
    /\ mask = <<>>
    /\ pc = "idle"
    /\ calls = 0

\* ------------------------------------------------------------------------
\* Feedback model: compute, then valid on a candidate
\* ------------------------------------------------------------------------
InitMatch ==
    /\ guess \in Words
    /\ ans \in Words
    /\ cand = NoWord
    /\ mat = NoMatch
    /\ ok = "unset"
    /\ IdleMask /\ IdleBest /\ IdleGame

\* let mat = Match::compute(guess, ans)
DoCompute ==
    /\ mat = NoMatch
    /\ mat' = compute(guess, ans)
    /\ UNCHANGED <<guess, ans, cand, ok>>
    /\ UNCHANGED <<maskVars, bestVars, gameVars>>

\* mat.valid(c) for a candidate c
DoValid ==
    /\ mat # NoMatch
    /\ cand = NoWord
    /\ \E c \in Words :
        /\ cand' = c
        /\ ok' = valid(mat, c)
    /\ UNCHANGED <<guess, ans, mat>>
    /\ UNCHANGED <<maskVars, bestVars, gameVars>>

NextMatch == DoCompute \/ DoValid

SpecMatch == InitMatch /\ [][NextMatch]_vars

\* ------------------------------------------------------------------------
\* Feedback parsing: Match::mask on a line of input
\* ------------------------------------------------------------------------
\* the three recognized symbols and one that is not
InputChars == {"=", "~", ".", "x"}

RECURSIVE SeqsUpTo(_, _)
\* the sequences over S of length at most n
SeqsUpTo(S, n) ==
    IF n = 0 THEN {<<>>}
    ELSE LET shorter == SeqsUpTo(S, n - 1) IN
         shorter \cup {Append(q, c) : q \in shorter, c \in S}

InitMask ==
    /\ res \in SeqsUpTo(InputChars, MaxInputLen)
    /\ mask_out = NoMask
    /\ IdleMatch /\ IdleBest /\ IdleGame

\* Signal::Success(buffer) => Match::mask(&buffer)  (line 294)
DoMask ==
    /\ mask_out.end = "unset"
    /\ mask_out' = MatchMask(res)
    /\ UNCHANGED res
    /\ UNCHANGED <<matchVars, bestVars, gameVars>>

NextMask == DoMask

SpecMask == InitMask /\ [][NextMask]_vars

\* ------------------------------------------------------------------------
\* Dictionaries
\* ------------------------------------------------------------------------
WordList == <<
    <<"a", "r", "e", "n", "a">>,
    <<"e", "a", "r", "n", "s">>,
    <<"e", "a", "r", "e", "d">>,
    <<"r", "a", "r", "e", "r">>,
    <<"c", "r", "a", "t", "e">>,
    <<"r", "o", "a", "t", "e">> >>

PoolIdx(n) == 1..Min(n, Len(WordList))

Pool == {WordList[k] : k \in PoolIdx(PoolSize)}

RECURSIVE Pick(_, _)
\* the words of WordList with index in S, in list order, from index k on
Pick(S, k) ==
    IF k > Len(WordList) THEN <<>>
    ELSE IF k \in S THEN <<WordList[k]>> \o Pick(S, k + 1)
         ELSE Pick(S, k + 1)

\* dictionaries read_lines returns: the sub-lists of the first n words
DictsOf(n) == {Pick(S, 1) : S \in SUBSET PoolIdx(n)}

Dicts == DictsOf(PoolSize)

Range(seq) == {seq[k] : k \in 1..Len(seq)}

\* the pool's words in every order, without repetition
OrderedDicts ==
    {q \in SeqsUpTo(Pool, Cardinality(Pool)) : Cardinality(Range(q)) = Len(q)}

\* ------------------------------------------------------------------------
\* best_word as the parallel map and reduction of lines 231-236
\* ------------------------------------------------------------------------
InitBest ==
    /\ bw_words \in OrderedDicts \ {<<>>}
    /\ bw_ans \in Dicts
    /\ parts = Scored(bw_words, bw_ans)
    /\ IdleMatch /\ IdleMask /\ IdleGame

\* one step of the reduction: two neighbouring partial results are
\* combined by min_by's operator, the left one as its first argument
Combine ==
    /\ Len(parts) > 1
    /\ \E k \in 1..(Len(parts) - 1) :
        parts' = SubSeq(parts, 1, k - 1)
                 \o <<MinByOp(parts[k], parts[k + 1])>>
                 \o SubSeq(parts, k + 2, Len(parts))
    /\ UNCHANGED <<bw_words, bw_ans>>
    /\ UNCHANGED <<matchVars, maskVars, gameVars>>

NextBest == Combine

SpecBest == InitBest /\ [][NextBest]_vars

\* ------------------------------------------------------------------------
\* Game loop: guesser, simulate  (main.rs:300-344)
\* ------------------------------------------------------------------------
\* Word::from("roate")  (line 306)
Opening == <<"r", "o", "a", "t", "e">>

\* guesses += 1, counted up to MaxTurns
Bump(n) == IF n < MaxTurns THEN n + 1 ELSE n

\* guesser's entry (lines 305-308); true_ans = NoWord stands for a
\* feedback source other than simulate's closure
InitGame ==
    /\ IdleMatch /\ IdleMask /\ IdleBest
    /\ full_words \in Dicts
    /\ answers_in \in Dicts
    /\ true_ans \in Pool \cup {NoWord}
    /\ answers = answers_in
    /\ last_word = Opening
    /\ guesses = 0
    /\ mask = <<>>
    /\ pc = "turn"
    /\ calls = 0

\* simulate (lines 300-302) on an answer of the answer dictionary, the
\* guess dictionary containing the answer dictionary
InitSim ==
    /\ IdleMatch /\ IdleMask /\ IdleBest
    /\ full_words \in DictsOf(SimPoolSize)
    /\ answers_in \in DictsOf(SimPoolSize)
    /\ Range(answers_in) \subseteq Range(full_words)
    /\ true_ans \in Range(answers_in)
    /\ answers = answers_in
    /\ last_word = Opening
    /\ guesses = 0
    /\ mask = <<>>
    /\ pc = "turn"
    /\ calls = 0

\* the values program(last_word) can return: simulate's closure computes
\* the feedback, any other source may return any status array
Program(word) ==
    IF true_ans # NoWord
    THEN {compute(word, true_ans).status}
    ELSE [Pos -> Status]

\* lines 315-317: count, ask the feedback source, filter
Turn ==
    /\ pc = "turn"
    /\ guesses' = Bump(guesses)
    /\ calls' = Bump(calls)
    /\ \E m \in Program(last_word) :
        /\ mask' = m
        /\ answers' = filter(MatchInput(last_word, m), answers)
    /\ pc' = "decide"
    /\ UNCHANGED <<full_words, answers_in, true_ans, last_word>>
    /\ UNCHANGED <<matchVars, maskVars, bestVars>>

\* a win test that looks at the first slot only
WinOnFirstExact ==
    /\ pc = "decide"
    /\ mask[1] = "Exact"
    /\ pc' = "done"
    /\ UNCHANGED <<full_words, answers_in, true_ans, answers, last_word,
                   guesses, mask, calls>>
    /\ UNCHANGED <<matchVars, maskVars, bestVars>>

\* lines 319-322: all-Exact feedback ends the loop with guesses
Win ==
    /\ pc = "decide"
    /\ mask = AllExact
    /\ pc' = "done"
    /\ UNCHANGED <<full_words, answers_in, true_ans, answers, last_word,
                   guesses, mask, calls>>
    /\ UNCHANGED <<matchVars, maskVars, bestVars>>

\* a reset arm that also matches a single remaining candidate
ResetWhenFew ==
    /\ pc = "decide"
    /\ mask # AllExact
    /\ Len(answers) <= 1
    /\ answers' = full_words
    /\ mask' = <<>>
    /\ pc' = "turn"
    /\ UNCHANGED <<full_words, answers_in, true_ans, last_word, guesses,
                   calls>>
    /\ UNCHANGED <<matchVars, maskVars, bestVars>>

\* a reset arm that also takes the first dictionary word as the guess
ResetPicksGuess ==
    /\ pc = "decide"
    /\ mask # AllExact
    /\ Len(answers) = 0
    /\ answers' = full_words
    /\ last_word' = IF Len(full_words) > 0 THEN full_words[1] ELSE last_word
    /\ mask' = <<>>
    /\ pc' = "turn"
    /\ UNCHANGED <<full_words, answers_in, true_ans, guesses, calls>>
    /\ UNCHANGED <<matchVars, maskVars, bestVars>>

\* line 339: 0 => answers = full_words.clone()
Reset ==
    /\ pc = "decide"
    /\ mask # AllExact
    /\ Len(answers) = 0
    /\ answers' = full_words
    /\ mask' = <<>>
    /\ pc' = "turn"
    /\ UNCHANGED <<full_words, answers_in, true_ans, last_word, guesses,
                   calls>>
    /\ UNCHANGED <<matchVars, maskVars, bestVars>>

\* line 340: 1 | 2 => last_word = answers[0]
GuessFirst ==
    /\ pc = "decide"
    /\ mask # AllExact
    /\ Len(answers) \in {1, 2}
    /\ last_word' = answers[1]
    /\ mask' = <<>>
    /\ pc' = "turn"
    /\ UNCHANGED <<full_words, answers_in, true_ans, answers, guesses,
                   calls>>
    /\ UNCHANGED <<matchVars, maskVars, bestVars>>

\* line 341: _ => last_word = best_word(&full_words, &answers);
\* min_by(..).unwrap() panics on an empty guess dictionary
Search ==
    /\ pc = "decide"
    /\ mask # AllExact
    /\ Len(answers) >= 3
    /\ IF Len(full_words) = 0
       THEN /\ pc' = "panic"
            /\ UNCHANGED <<last_word, mask>>
       ELSE /\ last_word' = best_word(full_words, answers)
            /\ mask' = <<>>
            /\ pc' = "turn"
    /\ UNCHANGED <<full_words, answers_in, true_ans, answers, guesses,
                   calls>>
    /\ UNCHANGED <<matchVars, maskVars, bestVars>>

NextGame == Turn \/ Win \/ Reset \/ GuessFirst \/ Search

SpecGame == InitGame /\ [][NextGame]_vars

\* the loop is sequential code and simulate's closure always returns
FairSpecSim == InitSim /\ [][NextGame]_vars /\ WF_vars(NextGame)

\* ------------------------------------------------------------------------
\* Properties
\* ------------------------------------------------------------------------
\* The two-pass consume-on-use matching of spec section 4.1: pass 2
\* visits only the positions that pass 1 did not mark Exact.
RECURSIVE RefPass2(_, _, _)
RefPass2(g, st, i) ==
    IF i > WordLen THEN st
    ELSE IF st.status[i] = "Exact" THEN RefPass2(g, st, i + 1)
    ELSE LET index == find_in_word(st.ans, g[i]) IN
         IF index # 0
         THEN RefPass2(g, [status |-> [st.status EXCEPT ![i] = "Found"],
                           ans    |-> [st.ans EXCEPT ![index] = "."]], i + 1)
         ELSE RefPass2(g, st, i + 1)

RefCompute(g, a) ==
    RefPass2(g, [status |-> [i \in Pos |-> IF g[i] = a[i] THEN "Exact"
                                                       ELSE "None"],
                 ans    |-> [i \in Pos |-> IF g[i] = a[i] THEN "." ELSE a[i]]],
             1).status

\* C1: an answer is never rejected by the feedback it produces itself:
\* valid applied to compute(guess, ans) and the candidate ans is true.
FilterComputeConsistency ==
    (mat # NoMatch /\ cand = ans) => ok = TRUE

\* C2: compute(guess, ans) is the status array of the two-pass
\* consume-on-use algorithm; every position where guess and answer agree
\* is Exact in it.
ComputeIsTwoPass ==
    mat # NoMatch =>
        /\ mat.status = RefCompute(guess, ans)
        /\ \A i \in Pos : guess[i] = ans[i] => mat.status[i] = "Exact"

\* C3: in simulation mode, on an answer of the answer dictionary and a
\* guess dictionary that contains the answer dictionary, guesser
\* eventually returns.
SimulationTerminates == <>(pc = "done")

\* C4: a candidate whose own feedback for the guess differs from the
\* observed feedback is rejected by valid.
FilterSoundness ==
    (mat # NoMatch /\ cand # NoWord /\ cand # ans
        /\ compute(guess, cand).status # mat.status) => ok = FALSE

RECURSIVE IsSubSeq(_, _)
\* s is t with some entries removed
IsSubSeq(s, t) ==
    IF s = <<>> THEN TRUE
    ELSE IF t = <<>> THEN FALSE
    ELSE IF Head(s) = Head(t) THEN IsSubSeq(Tail(s), Tail(t))
    ELSE IsSubSeq(s, Tail(t))

\* C5: a filter step leaves the candidate set a sub-sequence of what it
\* was; the candidate set grows, and changes outside a filter step, only
\* by the reset to the full guess dictionary, taken only when the filtered
\* set is empty after feedback that is not all-Exact.
MonotoneShrink ==
    [][ /\ pc = "turn" => IsSubSeq(answers', answers)
        /\ (Len(answers') > Len(answers) \/ (pc # "turn" /\ answers' # answers))
              => /\ pc = "decide"
                 /\ mask # AllExact
                 /\ Len(answers) = 0
                 /\ answers' = full_words ]_vars

\* a reset has enlarged the candidate set beyond the answer dictionary
ResetEnlarged ==
    /\ pc = "turn"
    /\ guesses >= 1
    /\ answers = full_words
    /\ Len(answers) > Len(answers_in)

Recognized == {"=", "~", "."}

\* the notation of spec section 4.1
Decode(c) == IF c = "=" THEN "Exact" ELSE IF c = "~" THEN "Found" ELSE "None"

Panicked(out) == out.end \in {"panic_unwrap", "panic_char"}

PairScore(w, C) ==
    Cardinality({p \in (1..Len(C)) \X (1..Len(C)) :
                    valid(compute(w, C[p[1]]), C[p[2]])})

\* the first index of D whose word has the least PairScore on C
FirstMin(D, C) ==
    CHOOSE k \in 1..Len(D) :
        /\ \A j \in 1..Len(D) : PairScore(D[k], C) <= PairScore(D[j], C)
        /\ \A j \in 1..(k - 1) : PairScore(D[j], C) > PairScore(D[k], C)

\* C7: however the reduction combines its items, best_word returns the
\* first word of the dictionary among those of least score.
BestWordIsFirstMin ==
    Len(parts) = 1 =>
        /\ parts[1][1] = bw_words[FirstMin(bw_words, bw_ans)]
        /\ parts[1][2] = PairScore(parts[1][1], bw_ans)
        /\ parts[1][1] = best_word(bw_words, bw_ans)

\* a reduction has finished on a dictionary in which a later word ties
\* with the first word of least score
TieReduced ==
    /\ Len(parts) = 1
    /\ Len(bw_ans) >= 2
    /\ \E k \in 1..Len(bw_words) :
        /\ k > FirstMin(bw_words, bw_ans)
        /\ PairScore(bw_words[k], bw_ans) = parts[1][2]

\* C8: guesser returns at the first all-Exact feedback and at no other
\* turn; what it returns is the number of calls of the feedback source,
\* at least 1; after all-Exact feedback nothing more is chosen or run.
WinCondition ==
    [][ /\ (pc = "decide" /\ mask = AllExact)
              => /\ pc' = "done"
                 /\ UNCHANGED <<last_word, answers, guesses, calls>>
        /\ pc' = "done"
              => /\ pc = "decide"
                 /\ mask = AllExact
                 /\ guesses' = calls'
                 /\ guesses' >= 1
        /\ pc # "done" ]_vars

\* a game has been won after more than one turn
WonLater ==
    /\ pc = "done"
    /\ guesses >= 2
    /\ guesses < MaxTurns

\* C9: in simulation mode on an answer of the answer dictionary,
\* guesser returns at most as many turns as the answer dictionary has
\* words.
TurnBound ==
    pc = "done" => guesses <= Len(answers_in)

\* C10: after feedback that is not all-Exact, an empty candidate set is
\* replaced by the full guess dictionary and the guess stays as it is;
\* otherwise the candidate set stays as filtered and the guess is its
\* first word (1 or 2 candidates) or best_word over the full dictionary
\* scored on the candidates (3 or more).
ResetKeepsGuess ==
    [][ (pc = "decide" /\ mask # AllExact) =>
            IF Len(answers) = 0
            THEN /\ answers' = full_words
                 /\ last_word' = last_word
                 /\ pc' = "turn"
            ELSE /\ answers' = answers
                 /\ Len(answers) \in {1, 2} => last_word' = answers[1]
                 /\ (Len(answers) >= 3 /\ Len(full_words) > 0)
                       => last_word' =
                            full_words[FirstMin(full_words, answers)] ]_vars

\* after a reset the opening guess is about to be submitted again
OpeningRepeated ==
    /\ pc = "turn"
    /\ guesses >= 2
    /\ last_word = Opening
    /\ answers = full_words
    /\ Len(full_words) >= 1
====
